---- MODULE Spec2Model ----
(***************************************************************************)
(* debyten/apierr: errors that carry an HTTP status code and their         *)
(* rendering into an HTTP response.                                        *)
(*                                                                         *)
(* The sources hold two revisions of the dispatcher:                       *)
(*   "apierr"  : src/unnamed/part_000 (Handle, HandleISE over *APIErr,     *)
(*               with decorators) and src/unnamed/part_001 (APIErr, tests) *)
(*   "problem" : src/handler.go (Handle, HandleISE over *problem.Problem,  *)
(*               with the handler registry)                                *)
(* A build links one of them; the variable revision says which.            *)
(*                                                                         *)
(* The response sink is modelled as net/http's ResponseWriter behaves (and *)
(* httptest.ResponseRecorder, which the tests use): the first WriteHeader  *)
(* fixes the status, later ones are ignored, headers changed after it are  *)
(* not sent, every Write appends to the body.  The body is the sequence of *)
(* lines written (http.Error writes its message as one line).  Status      *)
(* codes are drawn from the codes a ResponseWriter accepts (100..999).     *)
(* Header names are ErrHeader and application header names in canonical    *)
(* form; the headers http.Error sets on its own account (Content-Type,     *)
(* X-Content-Type-Options) are not part of the model.                      *)
(***************************************************************************)
EXTENDS Integers, Sequences, FiniteSets, TLC

VARIABLES
    revision,                  \* which revision of the dispatcher is linked
    handlers,                  \* handler.go:28        var handlers []ErrHandler
    decorators,                \* part_001:17          var decorators
    DefaultDBNotFoundHandler,  \* handler.go:17 / part_000:18
    heap,                      \* the live *APIErr objects (at most the one under test)
    appended,                  \* the CustomHeader(k, v) calls made on it, in call order
    err,                       \* the error value handed to the dispatcher (unwrap chain)
    w,                         \* the response written by the last dispatch
    log,                       \* the calls the last dispatch made, in order
    ret,                       \* the value the last operation returned
    op,                        \* the last operation and its argument
    panicked                   \* a panic has unwound the goroutine

vars == <<revision, handlers, decorators, DefaultDBNotFoundHandler, heap, appended, err,
          w, log, ret, op, panicked>>

----------------------------------------------------------------------------
\* Bounds of the model.
MaxExtra == 2
MaxAppend == 2
MaxWrap == 2
MaxHandlers == 2
MaxDecorators == 2

\* Program constants.
ErrHeader == "X-App-Error"
BadRequest == 400
NotFound == 404
Conflict == 409
InternalServerError == 500
StatusNoContent == 204
StatusOK == 200
ErrorFloor == 400
ErrorCeiling == 600

\* Inputs.
Codes == {StatusNoContent, ErrorFloor - 1, BadRequest, ErrorCeiling - 1, ErrorCeiling}
Tokens == {"my", "custom"}
Texts == {"dup"}
CustomNames == {"X-Custom", ErrHeader}
CustomValues == {"XXX", "YYY"}
DecoratorHeader == "X-Custom-Dec"
TraceHeader == "X-Trace"
HeaderNames == CustomNames \cup {DecoratorHeader, TraceHeader}
Requests == {"bare", "withValue"}
Decorators == {"dec", "trace"}
DBNotFoundHandlers == {"default", "always", "plainOnly"}
ErrHandlers == {"never", "plain", "wrapped", "always"}

SeqsUpTo(S, n) == UNION {[1..k -> S] : k \in 0..n}

----------------------------------------------------------------------------
\* Values returned by an operation.
NoRet == [kind |-> "none", b |-> FALSE, s |-> "", n |-> 0]
BoolRet(b) == [kind |-> "bool", b |-> b, s |-> "", n |-> 0]
StrRet(s) == [kind |-> "string", b |-> FALSE, s |-> s, n |-> 0]
IntRet(n) == [kind |-> "int", b |-> FALSE, s |-> "", n |-> n]
PtrRet(p) == [kind |-> "ptr", b |-> FALSE, s |-> "", n |-> p]
PanicRet == [kind |-> "panic", b |-> FALSE, s |-> "", n |-> 0]

Op(name, arg) == [name |-> name, arg |-> arg]

----------------------------------------------------------------------------
\* Error values.  An error is its unwrap chain, outermost first; <<>> is nil.
WrapNode == [kind |-> "wrap", ptr |-> 0, status |-> 0]
PlainNode == [kind |-> "plain", ptr |-> 0, status |-> 0]
APIErrNode(p) == [kind |-> "apierr", ptr |-> p, status |-> 0]
ProblemNode(c) == [kind |-> "problem", ptr |-> 0, status |-> c]

\* errors.Unwrap: only the fmt.Errorf("%w") wrapper has an Unwrap method.
Unwrap(e) == IF e # <<>> /\ Head(e).kind = "wrap" THEN Tail(e) ELSE <<>>

\* errors.As(err, &target): the first error of the chain of the target's type.
RECURSIVE errorsAs(_, _)
errorsAs(e, kind) ==
    IF e = <<>> THEN <<>>
    ELSE IF Head(e).kind = kind THEN <<Head(e)>>
    ELSE errorsAs(Unwrap(e), kind)

Wraps(e) == Cardinality({i \in 1..Len(e) : e[i].kind = "wrap"})
Terminal(e) == IF e = <<>> THEN "nil" ELSE e[Len(e)].kind

----------------------------------------------------------------------------
\* strings.Join
RECURSIVE stringsJoin(_, _)
stringsJoin(elems, sep) ==
    IF Len(elems) = 0 THEN ""
    ELSE IF Len(elems) = 1 THEN elems[1]
    ELSE elems[1] \o sep \o stringsJoin(Tail(elems), sep)

\* http.StatusText
StatusText(code) ==
    CASE code = StatusOK -> "OK"
      [] code = StatusNoContent -> "No Content"
      [] code = BadRequest -> "Bad Request"
      [] code = NotFound -> "Not Found"
      [] code = Conflict -> "Conflict"
      [] code = InternalServerError -> "Internal Server Error"
      [] OTHER -> ""

----------------------------------------------------------------------------
\* APIErr
EmptyMap == [k \in {} |-> <<>>]

\* New with the extras flag set from a wrong length test.
NewAPIErrOffByOne(cause, code, extra) ==
    [err |-> cause,
     extra |-> extra,
     code |-> code,
     extras |-> Len(extra) > 1,
     customHeaders |-> EmptyMap]

NewAPIErr(cause, code, extra) ==
    [err |-> cause,
     extra |-> extra,
     code |-> code,
     extras |-> Len(extra) > 0,
     customHeaders |-> EmptyMap]

\* CustomHeader that stores the value in place of the list instead of appending.
CustomHeaderOverwrite(a, k, v) ==
    [a EXCEPT !.customHeaders =
        [n \in (DOMAIN a.customHeaders) \cup {k} |->
            IF n = k THEN <<v>> ELSE a.customHeaders[n]]]

\* (a *APIErr) CustomHeader(k, v): the receiver's object after the call.
CustomHeaderOn(a, k, v) ==
    LET curr == IF k \in DOMAIN a.customHeaders THEN a.customHeaders[k] ELSE <<>>
        next == Append(curr, v)
    IN  [a EXCEPT !.customHeaders =
            [n \in (DOMAIN a.customHeaders) \cup {k} |->
                IF n = k THEN next ELSE a.customHeaders[n]]]

\* The heap and the pointer CustomHeader returns: it mutates in place and returns a.
CustomHeaderCall(hp, p, k, v) ==
    [heap |-> [hp EXCEPT ![p] = CustomHeaderOn(hp[p], k, v)], ret |-> PtrRet(p)]

\* The Error method of the cause: a call on a nil error is a nil dereference.
errError(cause) == IF cause = <<>> THEN PanicRet ELSE StrRet(cause[1])

\* Error without the test for an absent cause.
ErrorUnchecked(a) == errError(a.err)

\* (a *APIErr) Error()
Error(a) == IF a.err = <<>> THEN StrRet("") ELSE errError(a.err)

\* (a *APIErr) StatusCode()
StatusCode(a) == a.code

\* (a *APIErr) mergeExtra()
mergeExtra(a) == stringsJoin(a.extra, ",")

Appended(a) ==
    LET RECURSIVE sum(_)
        sum(S) == IF S = {} THEN 0
                  ELSE LET k == CHOOSE x \in S : TRUE
                       IN  Len(a.customHeaders[k]) + sum(S \ {k})
    IN  sum(DOMAIN a.customHeaders)

----------------------------------------------------------------------------
\* The response sink.  A dispatch threads r = [w, log, ret] through its steps.
NewRecorder ==
    [wroteHeader |-> FALSE,
     Code |-> StatusOK,
     header |-> [k \in HeaderNames |-> <<>>],
     body |-> <<>>]

Ev(kind, who, e, code) == [ev |-> kind, who |-> who, err |-> e, code |-> code]

Fresh == [w |-> NewRecorder, log |-> <<>>, ret |-> NoRet]

Logged(r, event) == [r EXCEPT !.log = Append(@, event)]

\* w.Header().Add(k, v)
HeaderAdd(r, k, v) ==
    IF r.w.wroteHeader THEN r
    ELSE [r EXCEPT !.w.header[k] = Append(@, v)]

\* w.WriteHeader(code)
WriteHeader(r, code) ==
    LET r1 == Logged(r, Ev("WriteHeader", "", <<>>, code))
    IN  IF r.w.wroteHeader THEN r1
        ELSE [r1 EXCEPT !.w.wroteHeader = TRUE, !.w.Code = code]

\* w.Write(line)
Write(r, line) ==
    LET r1 == IF r.w.wroteHeader THEN r ELSE WriteHeader(r, StatusOK)
    IN  [Logged(r1, Ev("Write", line, <<>>, 0)) EXCEPT !.w.body = Append(@, line)]

\* http.Error(w, text, code)
httpError(r, text, code) == Write(WriteHeader(r, code), text)

\* w.Header().Get(k)
HeaderGet(rec, k) == IF rec.header[k] = <<>> THEN "" ELSE rec.header[k][1]

----------------------------------------------------------------------------
\* part_000: the dispatcher over *APIErr.

\* extractAPIErr as a type assertion on the error itself, without the walk.
extractAPIErrNoUnwrap(e) ==
    IF e # <<>> /\ Head(e).kind = "apierr" THEN [ok |-> TRUE, ptr |-> Head(e).ptr]
    ELSE [ok |-> FALSE, ptr |-> 0]

\* extractAPIErr(err)
RECURSIVE extractAPIErr(_)
extractAPIErr(e) ==
    IF e = <<>> THEN [ok |-> FALSE, ptr |-> 0]
    ELSE LET ae == errorsAs(e, "apierr")
         IN  IF ae # <<>> THEN [ok |-> TRUE, ptr |-> ae[1].ptr]
             ELSE extractAPIErr(Unwrap(e))

\* for k, values := range ae.customHeaders { w.Header().Add(k, strings.Join(values, ",")) }
\* The keys are distinct headers, so the iteration order does not show.
AddCustomHeaders(r, m) ==
    IF r.w.wroteHeader THEN r
    ELSE [r EXCEPT !.w.header =
            [k \in HeaderNames |->
                IF k \in DOMAIN m THEN Append(r.w.header[k], stringsJoin(m[k], ","))
                ELSE r.w.header[k]]]

\* The status test with its bounds shifted by one.
isClientOrServerErrorShifted(statusCode) ==
    statusCode > ErrorFloor /\ statusCode <= ErrorCeiling

\* statusCode >= 400 && statusCode < 600
isClientOrServerError(statusCode) ==
    statusCode >= ErrorFloor /\ statusCode < ErrorCeiling

\* Handle(err, w) bool
HandleOn(r0, e, hp) ==
    LET r == Logged(r0, Ev("extract", "", e, 0))
        x == extractAPIErr(e)
    IN  IF ~x.ok THEN [r EXCEPT !.ret = BoolRet(FALSE)]
        ELSE LET ae == hp[x.ptr]
                 r1 == IF ae.extras THEN HeaderAdd(r, ErrHeader, mergeExtra(ae)) ELSE r
                 r2 == AddCustomHeaders(r1, ae.customHeaders)
                 statusCode == StatusCode(ae)
             IN  IF isClientOrServerError(statusCode)
                 THEN [httpError(r2, StatusText(statusCode), statusCode)
                          EXCEPT !.ret = BoolRet(TRUE)]
                 ELSE [WriteHeader(r2, statusCode) EXCEPT !.ret = BoolRet(TRUE)]

\* A Decorator: a caller's function over (w, r).
DecoratorCall(r, d, req) ==
    LET r1 == Logged(r, Ev("decorator", d, <<>>, 0))
    IN  CASE d = "dec" ->
               IF req = "withValue" THEN HeaderAdd(r1, DecoratorHeader, "1") ELSE r1
          [] d = "trace" -> HeaderAdd(r1, TraceHeader, "t")

\* for _, decorator := range decorators { decorator(w, r) }
RECURSIVE RunDecorators(_, _, _)
RunDecorators(r, decs, req) ==
    IF decs = <<>> THEN r
    ELSE RunDecorators(DecoratorCall(r, Head(decs), req), Tail(decs), req)

\* A DBNotFoundHandler: a caller's predicate over the error.
DBNotFoundCall(p, e) ==
    CASE p = "default" -> FALSE
      [] p = "always" -> TRUE
      [] p = "plainOnly" -> Terminal(e) = "plain"

\* The tail of HandleISE, shared by the two revisions: the legacy predicate, then 500.
Fallback(r, e, pred) ==
    LET r1 == Logged(r, Ev("DBNotFound", pred, e, 0))
    IN  IF DBNotFoundCall(pred, e)
        THEN httpError(r1, StatusText(NotFound), NotFound)
        ELSE httpError(r1, StatusText(InternalServerError), InternalServerError)

\* HandleISE that runs the decorators only for an error Handle did not recognize.
HandleISEOnUnhandledOnly(r, e, hp, decs, pred, req) ==
    LET r1 == HandleOn(r, e, hp)
    IN  IF r1.ret.b THEN r1 ELSE Fallback(RunDecorators(r1, decs, req), e, pred)

\* HandleISE(err, w, r)
HandleISEOn(r, e, hp, decs, pred, req) ==
    LET r1 == RunDecorators(r, decs, req)
        r2 == HandleOn(r1, e, hp)
    IN  IF r2.ret.b THEN r2 ELSE Fallback(r2, e, pred)

----------------------------------------------------------------------------
\* handler.go: the dispatcher over *problem.Problem.

\* extractProblem(err)
RECURSIVE extractProblem(_)
extractProblem(e) ==
    IF e = <<>> THEN <<>>
    ELSE LET ae == errorsAs(e, "problem")
         IN  IF ae # <<>> THEN ae
             ELSE extractProblem(Unwrap(e))

\* (p *problem.Problem) WriteTo(w): the status line, then the document.
WriteTo(r, status) ==
    Write(WriteHeader(r, status), "problem " \o ToString(status))

\* An ErrHandler: a caller's function from the error to a problem or nil.
ErrHandlerCall(h, e) ==
    CASE h = "never" -> <<>>
      [] h = "plain" -> IF Terminal(e) = "plain" THEN <<NotFound>> ELSE <<>>
      [] h = "wrapped" -> IF e # <<>> /\ Head(e).kind = "wrap" THEN <<Conflict>> ELSE <<>>
      [] h = "always" -> <<BadRequest>>

\* The handler loop walking the registry from its last entry.
RECURSIVE TryHandlersReversed(_, _, _)
TryHandlersReversed(r, e, hs) ==
    IF hs = <<>>
    THEN [httpError(r, StatusText(InternalServerError), InternalServerError)
             EXCEPT !.ret = BoolRet(FALSE)]
    ELSE LET h == hs[Len(hs)]
             p == ErrHandlerCall(h, e)
             r1 == Logged(r, Ev("handler", h, e, 0))
         IN  IF p # <<>> THEN [WriteTo(r1, p[1]) EXCEPT !.ret = BoolRet(TRUE)]
             ELSE TryHandlersReversed(r1, e, SubSeq(hs, 1, Len(hs) - 1))

\* for _, handler := range handlers { ... }, then the 500 of Handle
RECURSIVE TryHandlers(_, _, _)
TryHandlers(r, e, hs) ==
    IF hs = <<>>
    THEN [httpError(r, StatusText(InternalServerError), InternalServerError)
             EXCEPT !.ret = BoolRet(FALSE)]
    ELSE LET p == ErrHandlerCall(Head(hs), e)
             r1 == Logged(r, Ev("handler", Head(hs), e, 0))
         IN  IF p # <<>> THEN [WriteTo(r1, p[1]) EXCEPT !.ret = BoolRet(TRUE)]
             ELSE TryHandlers(r1, e, Tail(hs))

\* Handle(err, w) bool
HandleProblemOn(r0, e, hs) ==
    LET r == Logged(r0, Ev("extract", "", e, 0))
        ae == extractProblem(e)
    IN  IF ae # <<>> THEN [WriteTo(r, ae[1].status) EXCEPT !.ret = BoolRet(TRUE)]
        ELSE TryHandlers(r, e, hs)

\* HandleISE(err, w)
HandleISEProblemOn(r, e, hs, pred) ==
    LET r1 == HandleProblemOn(r, e, hs)
    IN  IF r1.ret.b THEN r1 ELSE Fallback(r1, e, pred)

----------------------------------------------------------------------------
\* The state machine.

Init ==
    /\ revision \in {"apierr", "problem"}
    /\ handlers = <<>>
    /\ decorators = <<>>
    /\ DefaultDBNotFoundHandler = "default"
    /\ heap = <<>>
    /\ appended = <<>>
    /\ err = <<>>
    /\ w = NewRecorder
    /\ log = <<>>
    /\ ret = NoRet
    /\ op = Op("init", "")
    /\ panicked = FALSE

Registries == <<handlers, decorators, DefaultDBNotFoundHandler>>
Idle == w' = NewRecorder /\ log' = <<>>

\* New(err, code, extra...)
New(cause, code, extra) ==
    /\ ~panicked /\ revision = "apierr"
    /\ heap' = <<NewAPIErr(cause, code, extra)>>
    /\ appended' = <<>>
    /\ err' = <<APIErrNode(1)>>
    /\ ret' = PtrRet(1)
    /\ op' = Op("New", "")
    /\ Idle
    /\ UNCHANGED <<revision, Registries, panicked>>

\* FromText(errText, code, extra...)
FromText(errText, code, extra) ==
    /\ ~panicked /\ revision = "apierr"
    /\ heap' = <<NewAPIErr(<<errText>>, code, extra)>>
    /\ appended' = <<>>
    /\ err' = <<APIErrNode(1)>>
    /\ ret' = PtrRet(1)
    /\ op' = Op("FromText", "")
    /\ Idle
    /\ UNCHANGED <<revision, Registries, panicked>>

\* a.CustomHeader(k, v)
CustomHeader(k, v) ==
    /\ ~panicked /\ heap # <<>>
    /\ LET c == CustomHeaderCall(heap, 1, k, v)
       IN  heap' = c.heap /\ ret' = c.ret
    /\ appended' = Append(appended, <<k, v>>)
    /\ op' = Op("CustomHeader", k)
    /\ Idle
    /\ UNCHANGED <<revision, Registries, err, panicked>>

\* a.Error()
CallError ==
    /\ ~panicked /\ heap # <<>>
    /\ ret' = Error(heap[1])
    /\ panicked' = (ret'.kind = "panic")
    /\ op' = Op("Error", "")
    /\ Idle
    /\ UNCHANGED <<revision, Registries, heap, appended, err>>

\* a.StatusCode()
CallStatusCode ==
    /\ ~panicked /\ heap # <<>>
    /\ ret' = IntRet(StatusCode(heap[1]))
    /\ op' = Op("StatusCode", "")
    /\ Idle
    /\ UNCHANGED <<revision, Registries, heap, appended, err, panicked>>

\* errors.New("not an apierr")
PlainErr ==
    /\ ~panicked
    /\ heap' = <<>>
    /\ appended' = <<>>
    /\ err' = <<PlainNode>>
    /\ ret' = NoRet
    /\ op' = Op("errors.New", "")
    /\ Idle
    /\ UNCHANGED <<revision, Registries, panicked>>

\* a problem built by the caller (README: apierr.NotFound.Problem(...))
NewProblem(code) ==
    /\ ~panicked /\ revision = "problem"
    /\ heap' = <<>>
    /\ appended' = <<>>
    /\ err' = <<ProblemNode(code)>>
    /\ ret' = NoRet
    /\ op' = Op("Problem", "")
    /\ Idle
    /\ UNCHANGED <<revision, Registries, panicked>>

\* fmt.Errorf("wrapped: %w", err)
Wrap ==
    /\ ~panicked /\ err # <<>> /\ Wraps(err) < MaxWrap
    /\ err' = <<WrapNode>> \o err
    /\ ret' = NoRet
    /\ op' = Op("fmt.Errorf", "")
    /\ Idle
    /\ UNCHANGED <<revision, Registries, heap, appended, panicked>>

\* AddHandler that puts the new handler in front.
AddHandlerPrepend(h) ==
    /\ ~panicked /\ revision = "problem" /\ Len(handlers) < MaxHandlers
    /\ handlers' = <<h>> \o handlers
    /\ ret' = NoRet
    /\ op' = Op("AddHandler", h)
    /\ Idle
    /\ UNCHANGED <<revision, decorators, DefaultDBNotFoundHandler, heap, appended, err, panicked>>

\* AddHandler(handler)
AddHandler(h) ==
    /\ ~panicked /\ revision = "problem" /\ Len(handlers) < MaxHandlers
    /\ handlers' = Append(handlers, h)
    /\ ret' = NoRet
    /\ op' = Op("AddHandler", h)
    /\ Idle
    /\ UNCHANGED <<revision, decorators, DefaultDBNotFoundHandler, heap, appended, err, panicked>>

\* AddDecorator(decorator)
AddDecorator(d) ==
    /\ ~panicked /\ Len(decorators) < MaxDecorators
    /\ decorators' = Append(decorators, d)
    /\ ret' = NoRet
    /\ op' = Op("AddDecorator", d)
    /\ Idle
    /\ UNCHANGED <<revision, handlers, DefaultDBNotFoundHandler, heap, appended, err, panicked>>

\* DefaultDBNotFoundHandler = f
SetDBNotFoundHandler(p) ==
    /\ ~panicked /\ DefaultDBNotFoundHandler # p
    /\ DefaultDBNotFoundHandler' = p
    /\ ret' = NoRet
    /\ op' = Op("SetDBNotFoundHandler", p)
    /\ Idle
    /\ UNCHANGED <<revision, handlers, decorators, heap, appended, err, panicked>>

Dispatched(r, name, arg) ==
    /\ w' = r.w /\ log' = r.log /\ ret' = r.ret
    /\ op' = Op(name, arg)
    /\ UNCHANGED <<revision, Registries, heap, appended, err, panicked>>

\* part_000: Handle(err, httptest.NewRecorder())
Handle ==
    /\ ~panicked /\ revision = "apierr"
    /\ Dispatched(HandleOn(Fresh, err, heap), "Handle", "")

\* part_000: HandleISE(err, httptest.NewRecorder(), r)
HandleISE(req) ==
    /\ ~panicked /\ revision = "apierr"
    /\ Dispatched(HandleISEOn(Fresh, err, heap, decorators, DefaultDBNotFoundHandler, req),
                  "HandleISE", req)

\* handler.go: Handle(err, w)
HandleProblem ==
    /\ ~panicked /\ revision = "problem"
    /\ Dispatched(HandleProblemOn(Fresh, err, handlers), "Handle", "")

\* handler.go: HandleISE(err, w)
HandleISEProblem ==
    /\ ~panicked /\ revision = "problem"
    /\ Dispatched(HandleISEProblemOn(Fresh, err, handlers, DefaultDBNotFoundHandler),
                  "HandleISE", "")

----------------------------------------------------------------------------
\* SpecAPIErr: the APIErr value and its rendering, over the full input sets.
InitAPIErr == Init /\ revision = "apierr"

NextAPIErr ==
    \/ \E c \in Codes, x \in SeqsUpTo(Tokens, MaxExtra) : New(<<>>, c, x)
    \/ \E t \in Texts, c \in {StatusNoContent, BadRequest}, x \in SeqsUpTo(Tokens, MaxExtra) :
          FromText(t, c, x)
    \/ \E k \in CustomNames, v \in CustomValues :
          heap # <<>> /\ Appended(heap[1]) < MaxAppend /\ CustomHeader(k, v)
    \/ CallError
    \/ CallStatusCode
    \/ Wrap
    \/ err # <<>> /\ Handle

SpecAPIErr == InitAPIErr /\ [][NextAPIErr]_vars

\* Spec: the registries and the dispatch of both revisions, over the errors of the tests.
Next ==
    \/ \E c \in {StatusNoContent, Conflict} : New(<<>>, c, <<>>)
    \/ \E c \in {StatusNoContent, Conflict} : FromText("dup", c, <<"my">>)
    \/ heap # <<>> /\ Appended(heap[1]) = 0 /\ CustomHeader("X-Custom", "XXX")
    \/ CallError
    \/ CallStatusCode
    \/ PlainErr
    \/ \E c \in {StatusNoContent, NotFound} : NewProblem(c)
    \/ Wrap
    \/ \E h \in ErrHandlers : AddHandler(h)
    \/ \E d \in Decorators : AddDecorator(d)
    \/ \E p \in DBNotFoundHandlers : SetDBNotFoundHandler(p)
    \/ err # <<>> /\ Handle
    \/ \E req \in Requests : err # <<>> /\ HandleISE(req)
    \/ err # <<>> /\ HandleProblem
    \/ err # <<>> /\ HandleISEProblem

Spec == Init /\ [][Next]_vars

----------------------------------------------------------------------------
\* The properties of the specification, stated over the model.

\* A list of strings as the specification renders it: joined by "," in order.
RECURSIVE CommaList(_)
CommaList(q) ==
    IF q = <<>> THEN ""
    ELSE IF Len(q) = 1 THEN q[1]
    ELSE CommaList(SubSeq(q, 1, Len(q) - 1)) \o "," \o q[Len(q)]

Range(q) == {q[i] : i \in 1..Len(q)}

\* The values appended for header k by the CustomHeader calls, in call order.
ValuesFor(k) ==
    LET calls == SelectSeq(appended, LAMBDA c : c[1] = k)
    IN  [i \in 1..Len(calls) |-> calls[i][2]]

\* The Structured Error Value of the linked revision.
SEVKind == IF revision = "apierr" THEN "apierr" ELSE "problem"
InChain == Terminal(err) = SEVKind
Core(e) == IF e = <<>> THEN <<>> ELSE <<e[Len(e)]>>
SEV == heap[1]

\* Handle of part_000 has just rendered an APIErr.
HandledAPIErr == revision = "apierr" /\ op.name = "Handle" /\ InChain

C2_ExtraHeaderAsStated ==
    HandledAPIErr =>
        /\ (w.header[ErrHeader] # <<>>) <=> (Len(SEV.extra) > 0)
        /\ (w.header[ErrHeader] # <<>>) => w.header[ErrHeader] = <<CommaList(SEV.extra)>>

\* C2, amended: the same, for an APIErr on which CustomHeader was not called with
\* the name X-App-Error.
C2_ExtraHeader ==
    (HandledAPIErr /\ ValuesFor(ErrHeader) = <<>>) =>
        /\ (w.header[ErrHeader] # <<>>) <=> (Len(SEV.extra) > 0)
        /\ (w.header[ErrHeader] # <<>>) => w.header[ErrHeader] = <<CommaList(SEV.extra)>>

C2_Witness ==
    /\ HandledAPIErr /\ ValuesFor(ErrHeader) = <<>>
    /\ SEV.extra = <<"my", "custom">>
    /\ w.header[ErrHeader] = <<"my,custom">>

DispatchWith(e, hp) ==
    CASE revision = "apierr" /\ op.name = "Handle" -> HandleOn(Fresh, e, hp)
      [] revision = "apierr" /\ op.name = "HandleISE" ->
            HandleISEOn(Fresh, e, hp, decorators, DefaultDBNotFoundHandler, op.arg)
      [] revision = "problem" /\ op.name = "Handle" -> HandleProblemOn(Fresh, e, handlers)
      [] revision = "problem" /\ op.name = "HandleISE" ->
            HandleISEProblemOn(Fresh, e, handlers, DefaultDBNotFoundHandler)

DispatchOf(e) == DispatchWith(e, heap)

CoreStatus == IF revision = "apierr" THEN SEV.code ELSE err[Len(err)].status

\* C4: an error that wraps a Structured Error Value in any number of wrappers is
\* dispatched with the status, headers, body and return value of the value
\* itself; the walk reports no match only when the chain holds none.
C4_UnwrapWalk ==
    op.name \in {"Handle", "HandleISE"} =>
        /\ InChain =>
              /\ w = DispatchOf(Core(err)).w
              /\ ret = DispatchOf(Core(err)).ret
              /\ ret = BoolRet(TRUE)
              /\ w.Code = CoreStatus
        /\ ret = BoolRet(FALSE) => ~InChain

C4_Witness ==
    /\ revision = "apierr" /\ op.name = "Handle" /\ InChain /\ Wraps(err) >= 2
    /\ SEV.extras /\ w.Code = Conflict /\ w.header[ErrHeader] = <<"my">>
    /\ ret = BoolRet(TRUE)

IsDispatch == op.name \in {"Handle", "HandleISE"}
EventsOf(kind) == SelectSeq(log, LAMBDA x : x.ev = kind)

\* The registered handlers that return a problem for e, by position.
Matches(e) == {i \in 1..Len(handlers) : ErrHandlerCall(handlers[i], e) # <<>>}
FirstMatch(e) == CHOOSE i \in Matches(e) : \A j \in Matches(e) : i <= j
Invoked(n) == [i \in 1..n |-> Ev("handler", handlers[i], err, 0)]

\* C5: when the chain holds no problem, Handle invokes the handlers in
\* registration order, each with the original error; the first non-nil result is
\* the one rendered, no later handler is invoked, and Handle returns true.
C5_HandlerOrder ==
    (revision = "problem" /\ IsDispatch /\ ~InChain) =>
        IF Matches(err) = {}
        THEN EventsOf("handler") = Invoked(Len(handlers)) /\ ret = BoolRet(FALSE)
        ELSE LET p == ErrHandlerCall(handlers[FirstMatch(err)], err)[1]
             IN  /\ EventsOf("handler") = Invoked(FirstMatch(err))
                 /\ w.wroteHeader /\ w.Code = p
                 /\ w.body = <<"problem " \o ToString(p)>>
                 /\ ret = BoolRet(TRUE)

C5_Witness ==
    /\ revision = "problem" /\ op.name = "Handle" /\ ~InChain
    /\ handlers = <<"never", "wrapped", "always">> \/ handlers = <<"wrapped", "always">>
    /\ Matches(err) = {Len(handlers) - 1, Len(handlers)}
    /\ w.Code = Conflict /\ ret = BoolRet(TRUE)

Count(d) == Cardinality({i \in 1..Len(decorators) : decorators[i] = d})

Unresolved == ~InChain /\ Matches(err) = {}

\* C7: on HandleISE, an unresolved error for which the legacy predicate returns
\* true gets status 404 with body "Not Found"; the predicate is consulted only in
\* that case and never by bare Handle.
C7_LegacyNotFound ==
    /\ (op.name = "HandleISE" /\ Unresolved
           /\ DBNotFoundCall(DefaultDBNotFoundHandler, err)) =>
          (w.wroteHeader /\ w.Code = 404 /\ w.body = <<"Not Found">>)
    /\ EventsOf("DBNotFound") # <<>> => (op.name = "HandleISE" /\ Unresolved)

\* The entry points that end with the 500 of the fallback: HandleISE, and the
\* Handle of handler.go (the Handle of part_000 leaves it to HandleISE).
OwnsFallback == op.name = "HandleISE" \/ (op.name = "Handle" /\ revision = "problem")

\* C8: an unresolved error (on HandleISE: with the legacy predicate false) gets
\* status 500 with body "Internal Server Error" and Handle returns false; Handle
\* returns true exactly when a Structured Error Value was found and rendered.
C8_Fallback ==
    IsDispatch =>
        /\ (Unresolved /\ OwnsFallback
               /\ (op.name = "HandleISE" => ~DBNotFoundCall(DefaultDBNotFoundHandler, err))) =>
              (w.wroteHeader /\ w.Code = 500 /\ w.body = <<"Internal Server Error">>)
        /\ Unresolved => ret = BoolRet(FALSE)
        /\ (ret = BoolRet(TRUE)) <=> (~Unresolved /\ w.wroteHeader)

\* The dispatch under way is a recognition failure of part_000's bare Handle.
BareMiss == revision = "apierr" /\ op.name = "Handle" /\ ~InChain

\* The response had the cause of the APIErr been present.
WithCause == DispatchWith(err, [heap EXCEPT ![1].err = <<"dup">>])

C10_Registries ==
    [][/\ op'.name = "AddHandler" =>
             /\ handlers' = Append(handlers, op'.arg)
             /\ decorators' = decorators
             /\ DefaultDBNotFoundHandler' = DefaultDBNotFoundHandler
       /\ op'.name = "AddDecorator" =>
             /\ decorators' = Append(decorators, op'.arg)
             /\ handlers' = handlers
             /\ DefaultDBNotFoundHandler' = DefaultDBNotFoundHandler
       /\ op'.name \in {"Handle", "HandleISE"} =>
             /\ handlers' = handlers
             /\ decorators' = decorators
             /\ DefaultDBNotFoundHandler' = DefaultDBNotFoundHandler]_vars

C10_Witness ==
    /\ revision = "problem" /\ op.name = "HandleISE"
    /\ handlers = <<"plain", "never">> /\ decorators = <<"trace", "dec">>
    /\ DefaultDBNotFoundHandler = "always"

\* C11: every call of Handle or HandleISE writes the status line exactly once
\* and the body at most once on every path, so the status the client receives
\* is the one of the last status write made.  (For the Handle of part_000 the
\* paths are the ones that recognize the error; it leaves the others to
\* HandleISE.)
C11_WritesOnce ==
    (IsDispatch /\ (OwnsFallback \/ ~Unresolved)) =>
        /\ Len(EventsOf("WriteHeader")) = 1
        /\ Len(EventsOf("Write")) <= 1
        /\ w.wroteHeader
        /\ w.Code = EventsOf("WriteHeader")[Len(EventsOf("WriteHeader"))].code

====
